---- MODULE Spec2Model ----
(***************************************************************************)
(* Model of the raw-to-trusted pipeline of src/src/process.py:             *)
(* process_all_raw_data / process_json_to_parquet (canonicalisation and    *)
(* per-snapshot deduplication), detect_changes (field-level change events) *)
(* and prepare_for_database (current-state table, first-seen timestamp and *)
(* active flag).                                                           *)
(*                                                                         *)
(* A JSON value or a dataframe cell is a tagged record: null, a number, a  *)
(* text or a JSON object.  A JSON object (a Python dict) is a function     *)
(* from key names to values; a key that is missing is not in its DOMAIN.   *)
(* A dataframe is the sequence of its rows, in row order; a row is a       *)
(* record with one field per column.  A timestamp is a number of ticks;    *)
(* its calendar date is the number of whole days it holds.                 *)
(***************************************************************************)
EXTENDS Integers, Sequences, FiniteSets, TLC

VARIABLES
    json_files,      \* the raw snapshot files found by the glob, in listing order
    i,               \* process_all_raw_data: number of files already processed
    all_dataframes,  \* process_all_raw_data: the dataframes collected so far
    trusted,         \* the parquet files written so far (one dataframe each)
    sort_kind,       \* how this build's single-key quicksort orders equal keys
    changes_df,      \* the result of detect_changes
    properties_df,   \* the result of prepare_for_database
    run,             \* how many times detect_changes/prepare_for_database ran
    prev_changes_df, \* changes_df of the previous run
    prev_properties_df, \* properties_df of the previous run
    pc,              \* position in the pipeline
    bairro_global,   \* crawler main: number of neighbourhoods started
    total_collected, \* crawler main: items returned by scrape_bairro so far
    page,            \* scrape_bairro: the page to request next
    total_pages,     \* scrape_bairro: metadata.totalPages of the first page
    all_items,       \* scrape_bairro: the items collected so far
    responses,       \* the responses scrape_bairro received in this call
    save_batch_args, \* the item lists handed to save_batch, one per call
    raw_files,       \* the item lists of the raw files save_batch wrote
    properties,      \* crawler main: what scrape_bairro returned
    cpc              \* position in scrape_bairro

\* The state of the crawler (src/src/crawler.py) and of the pipeline.
crawler_vars == <<bairro_global, total_collected, page, total_pages, all_items,
                  responses, save_batch_args, raw_files, properties, cpc>>

pipeline_vars == <<json_files, i, all_dataframes, trusted, sort_kind, changes_df,
                   properties_df, run, prev_changes_df, prev_properties_df, pc>>

vars == <<pipeline_vars, crawler_vars>>

(***************************************************************************)
(* Values                                                                  *)
(***************************************************************************)
NULL == [t |-> "null"]
Num(n) == [t |-> "num", v |-> n]
Text(s) == [t |-> "str", v |-> s]
Obj(m) == [t |-> "obj", v |-> m]
\* The empty dict {} used as the default of the chained .get calls.
EmptyDict == <<>>
\* The outcome of an expression that raises.
RAISE == [t |-> "raise"]

\* dict.get(k, default)
Get(m, k, default) == IF k \in DOMAIN m THEN m[k] ELSE default

\* prop.get(k1, {}).get(k2, {}) ... .get(kn): every key but the last defaults
\* to {}; a key that is present with a value that is no dict makes the next
\* .get raise AttributeError.
RECURSIVE GetPath(_, _)
GetPath(m, path) ==
    IF Len(path) = 1
    THEN Get(m, path[1], NULL)
    ELSE LET nxt == Get(m, path[1], Obj(EmptyDict))
         IN  IF nxt.t # "obj" THEN RAISE ELSE GetPath(nxt.v, Tail(path))

\* Python truthiness of a JSON value.
Truthy(x) ==
    CASE x.t = "null" -> FALSE
      [] x.t = "num"  -> x.v # 0
      [] x.t = "str"  -> x.v # ""
      [] x.t = "obj"  -> DOMAIN x.v # {}
      [] OTHER        -> FALSE

\* The decimal numerals float() is applied to in the modelled inputs.
Numerals == [s \in {"0", "1", "2"} |-> CASE s = "0" -> 0 [] s = "1" -> 1 [] OTHER -> 2]

\* float(x): a number stays, a numeral text is parsed, anything else raises.
Float(x) ==
    CASE x.t = "num" -> x
      [] x.t = "str" -> IF x.v \in DOMAIN Numerals THEN Num(Numerals[x.v]) ELSE RAISE
      [] OTHER       -> RAISE

\* float(prop.get(a, {}).get(b)) if prop.get(a, {}).get(b) else None
FloatOrNone(x) ==
    IF x = RAISE THEN RAISE ELSE IF Truthy(x) THEN Float(x) ELSE NULL

\* pd.to_datetime(x, errors='coerce'): a timestamp stays, the rest is NaT.
ToDatetimeCoerce(x) == IF x.t = "num" THEN x ELSE NULL

\* json.dumps([item.get('name') for item in items if item.get('name')])
RECURSIVE JoinNames(_)
JoinNames(items) ==
    IF items = <<>> THEN ""
    ELSE LET n == Get(items[1].v, "name", NULL)
             rest == JoinNames(Tail(items))
         IN  IF ~Truthy(n) THEN rest
             ELSE "\"" \o n.v \o "\"" \o (IF rest = "" THEN "" ELSE ", " \o rest)

PrivativeItems(prop) ==
    LET items == Get(prop, "privativeItems", <<>>)
    IN  IF \E k \in 1..Len(items) : items[k].t # "obj" THEN RAISE
        ELSE Text("[" \o JoinNames(items) \o "]")

(***************************************************************************)
(* Canonicalizer: extract_property_features                                *)
(***************************************************************************)
extract_property_features(prop) ==
    LET row == [
          id              |-> Get(prop, "id", NULL),
          title           |-> Get(prop, "title", NULL),
          reference       |-> Get(prop, "reference", NULL),
          description     |-> Get(prop, "description", NULL),
          category        |-> Get(prop, "category", NULL),
          total_area      |-> FloatOrNone(GetPath(prop, <<"area", "total">>)),
          useful_area     |-> FloatOrNone(GetPath(prop, <<"area", "useful">>)),
          price           |-> GetPath(prop, <<"prices", "rawPrice">>),
          bedrooms        |-> GetPath(prop, <<"properties", "bedrooms">>),
          bathrooms       |-> GetPath(prop, <<"bathrooms", "count">>),
          suites          |-> GetPath(prop, <<"suites", "count">>),
          garages         |-> GetPath(prop, <<"garages", "count">>),
          street_name     |-> GetPath(prop, <<"location", "street", "name">>),
          address_number  |-> GetPath(prop, <<"location", "street", "addressNumber">>),
          address_comp    |-> GetPath(prop, <<"location", "street", "addressComp">>),
          neighborhood    |-> GetPath(prop, <<"location", "neighborhood", "name">>),
          city            |-> GetPath(prop, <<"location", "city", "name">>),
          state           |-> GetPath(prop, <<"location", "state", "name">>),
          latitude        |-> FloatOrNone(GetPath(prop, <<"location", "geoposition", "lat">>)),
          longitude       |-> FloatOrNone(GetPath(prop, <<"location", "geoposition", "lon">>)),
          publisher_name  |-> GetPath(prop, <<"publisher", "name">>),
          publisher_phone |-> GetPath(prop, <<"publisher", "phones", "cellphone", "number">>),
          privative_items |-> PrivativeItems(prop),
          estado          |-> Get(prop, "estado", NULL),
          cidade          |-> Get(prop, "cidade", NULL),
          bairro          |-> Get(prop, "bairro", NULL),
          updated_at      |-> ToDatetimeCoerce(Get(prop, "updatedAt", NULL)) ]
    IN  IF \E c \in DOMAIN row : row[c] = RAISE THEN RAISE ELSE row

(***************************************************************************)
(* Dataframe helpers                                                       *)
(***************************************************************************)
Range(s) == {s[k] : k \in 1..Len(s)}

\* pd.concat(dfs, ignore_index=True): the rows of every frame, in list order.
RECURSIVE Concat(_)
Concat(dfs) == IF dfs = <<>> THEN <<>> ELSE Head(dfs) \o Concat(Tail(dfs))

\* pd.isna
IsNa(x) == x.t = "null"

\* Mutant: keep='first'.
DropDuplicatesIdLast_KeepFirst(df) ==
    LET Keep(k) == \A j \in 1..(k - 1) : df[j].id # df[k].id
        RECURSIVE Build(_)
        Build(k) == IF k > Len(df) THEN <<>>
                    ELSE (IF Keep(k) THEN <<df[k]>> ELSE <<>>) \o Build(k + 1)
    IN  Build(1)

\* DataFrame.drop_duplicates(subset=['id'], keep='last'): a row stays iff no
\* later row has the same id; missing ids count as equal to each other.
DropDuplicatesIdLast(df) ==
    LET Keep(k) == \A j \in (k + 1)..Len(df) : df[j].id # df[k].id
        RECURSIVE Build(_)
        Build(k) == IF k > Len(df) THEN <<>>
                    ELSE (IF Keep(k) THEN <<df[k]>> ELSE <<>>) \o Build(k + 1)
    IN  Build(1)

(***************************************************************************)
(* Snapshot Deduplicator: process_json_to_parquet                          *)
(***************************************************************************)
\* A raw snapshot file: readable says whether open/json.load succeed.
\* The result is [ok |-> FALSE] for None and [ok |-> TRUE, df |-> rows].
DfNone == [ok |-> FALSE, df |-> <<>>]

process_json_to_parquet(file) ==
    IF ~file.readable THEN DfNone
    ELSE
    LET data == file.data
        crawled_at == Get(data, "crawled_at", NULL)
        props == Get(data, "properties", <<>>)
        extracted == [k \in 1..Len(props) |->
                        IF props[k].t # "obj" THEN RAISE
                        ELSE extract_property_features(props[k].v)]
    IN  IF crawled_at.t # "num" THEN DfNone
        ELSE IF \E k \in 1..Len(props) : extracted[k] = RAISE THEN DfNone
        ELSE IF props = <<>> THEN DfNone
        ELSE [ok |-> TRUE,
              df |-> DropDuplicatesIdLast(
                        [k \in 1..Len(props) |-> extracted[k] @@ [crawled_at |-> crawled_at]])]

(***************************************************************************)
(* Sorting                                                                 *)
(***************************************************************************)
\* pd.to_datetime on the crawled_at column: the timestamp in ticks.
ToDatetime(x) == x.v

\* Ticks per calendar day: Series.dt.date drops the time of day.
TicksPerDay == 2
DateOf(ts) == ts \div TicksPerDay

\* A stable sort of s by the integer keys key[1..Len(s)]: a row goes after the
\* rows with a smaller key and after the rows with an equal key that came
\* before it.
StableSort(s, key) ==
    LET Before(j, k) == key[j] < key[k] \/ (key[j] = key[k] /\ j < k)
        Pos(k) == Cardinality({j \in 1..Len(s) : Before(j, k)}) + 1
    IN  [p \in 1..Len(s) |-> s[CHOOSE k \in 1..Len(s) : Pos(k) = p]]

Reverse(s) == [k \in 1..Len(s) |-> s[Len(s) + 1 - k]]

\* The sort key of the id column: numbers ascending, missing ids last.
IdKey(df, k) ==
    LET ids == {df[j].id.v : j \in {x \in 1..Len(df) : ~IsNa(df[x].id)}}
    IN  IF ~IsNa(df[k].id) THEN df[k].id.v
        ELSE IF ids = {} THEN 0
        ELSE 1 + CHOOSE m \in ids : \A y \in ids : y <= m

\* Mutant: sorted by id only, the rows of an id left in arrival order.
SortByIdCrawledAt_IdOnly(df) ==
    StableSort(df, [k \in 1..Len(df) |-> IdKey(df, k)])

\* DataFrame.sort_values(['id', 'crawled_at']): a lexicographic sort on
\* several keys, which pandas does with a stable sort: by id, and among equal
\* ids by crawled_at, and among equal both in frame order.
SortByIdCrawledAt(df) ==
    LET by_time == StableSort(df, [k \in 1..Len(df) |-> ToDatetime(df[k].crawled_at)])
    IN  StableSort(by_time, [k \in 1..Len(df) |-> IdKey(by_time, k)])

\* DataFrame.sort_values('crawled_at'): a single-key sort with the default
\* kind='quicksort', which does not promise the order of rows with equal
\* timestamps.  kind names what this build does with them: it keeps their
\* order ("stable") or not ("reversed").
SortKinds == {"stable", "reversed"}

\* Mutant: no sort, the rows are left in arrival order.
SortByCrawledAt_Unsorted(df, kind) == df

SortByCrawledAt(df, kind) ==
    LET rows == IF kind = "stable" THEN df ELSE Reverse(df)
    IN  StableSort(rows, [k \in 1..Len(rows) |-> ToDatetime(rows[k].crawled_at)])

(***************************************************************************)
(* Change Detector: detect_changes                                         *)
(***************************************************************************)
\* Mutant: category added to the monitored fields.
monitor_fields_WithCategory ==
    <<"price", "title", "description", "total_area", "useful_area",
      "bedrooms", "bathrooms", "suites", "garages",
      "street_name", "address_number", "neighborhood",
      "publisher_name", "publisher_phone", "category">>

monitor_fields == <<"price", "title", "description", "total_area", "useful_area",
                    "bedrooms", "bathrooms", "suites", "garages",
                    "street_name", "address_number", "neighborhood",
                    "publisher_name", "publisher_phone">>

\* Mutant: the pd.isna test left out, so a missing value is written 'None'.
StrOf_NoneText(x) ==
    IF IsNa(x) THEN "None" ELSE IF x.t = "num" THEN ToString(x.v) ELSE x.v

\* str(value); a missing value gives ''.  A number is written as an integer:
\* the cells of a column share one dtype, so whether pandas writes 1 or 1.0 is
\* the same for both records of a pair.
StrOf(x) == IF IsNa(x) THEN "" ELSE IF x.t = "num" THEN ToString(x.v) ELSE x.v

\* The keys of groupby('id'): the ids present, ascending, missing ids dropped.
RECURSIVE SortedSeqOf(_)
SortedSeqOf(S) ==
    IF S = {} THEN <<>>
    ELSE LET m == CHOOSE x \in S : \A y \in S : x <= y
         IN  <<m>> \o SortedSeqOf(S \ {m})

\* Mutant: the groups are visited from the greatest id down.
GroupKeys_Descending(df) ==
    Reverse(SortedSeqOf({r.id.v : r \in {x \in Range(df) : ~IsNa(x.id)}}))

GroupKeys(df) == SortedSeqOf({r.id.v : r \in {x \in Range(df) : ~IsNa(x.id)}})

\* One group of groupby('id'): the rows of that id, in frame order.
Group(df, prop_id) ==
    LET Is(r) == ~IsNa(r.id) /\ r.id.v = prop_id IN SelectSeq(df, Is)

\* Mutant: the two emptiness tests are left out.
FieldChanged_AnyDifference(prev_str, curr_str) == prev_str # curr_str

\* if prev_str != curr_str and prev_str != '' and curr_str != ''
FieldChanged(prev_str, curr_str) ==
    prev_str # curr_str /\ prev_str # "" /\ curr_str # ""

\* Mutant: the event is dated by the earlier record of the pair.
ChangeDate_OfPrev(prev_row, curr_row) == ToDatetime(prev_row.crawled_at)

\* 'change_date': pd.to_datetime(curr_row['crawled_at'])
ChangeDate(prev_row, curr_row) == ToDatetime(curr_row.crawled_at)

\* Mutant: the loop over monitor_fields stops at the first field that changed.
PairChanges_FirstField(prop_id, prev_row, curr_row) ==
    LET Changed(field) == FieldChanged(StrOf(prev_row[field]), StrOf(curr_row[field]))
        fields == SelectSeq(monitor_fields, Changed)
    IN  [k \in 1..(IF fields = <<>> THEN 0 ELSE 1) |->
            [id          |-> prop_id,
             field       |-> fields[k],
             old_value   |-> StrOf(prev_row[fields[k]]),
             new_value   |-> StrOf(curr_row[fields[k]]),
             change_date |-> ChangeDate(prev_row, curr_row)]]

\* The events of one adjacent pair, in monitor_fields order.
PairChanges(prop_id, prev_row, curr_row) ==
    LET Changed(field) == FieldChanged(StrOf(prev_row[field]), StrOf(curr_row[field]))
        fields == SelectSeq(monitor_fields, Changed)
    IN  [k \in 1..Len(fields) |->
            [id          |-> prop_id,
             field       |-> fields[k],
             old_value   |-> StrOf(prev_row[fields[k]]),
             new_value   |-> StrOf(curr_row[fields[k]]),
             change_date |-> ChangeDate(prev_row, curr_row)]]

\* The events of one id: for i in range(1, len(prop_history)).
RECURSIVE HistoryChanges(_, _, _)
HistoryChanges(prop_id, prop_history, k) ==
    IF k > Len(prop_history) THEN <<>>
    ELSE PairChanges(prop_id, prop_history[k - 1], prop_history[k])
         \o HistoryChanges(prop_id, prop_history, k + 1)

RECURSIVE AllChanges(_, _)
AllChanges(full_df, keys) ==
    IF keys = <<>> THEN <<>>
    ELSE HistoryChanges(keys[1], Group(full_df, keys[1]), 2)
         \o AllChanges(full_df, Tail(keys))

\* Mutant: drop_duplicates left out.
DropDuplicates_KeepAll(df) == df

\* DataFrame.drop_duplicates(): the first of each run of equal rows stays.
DropDuplicates(df) ==
    LET Keep(k) == \A j \in 1..(k - 1) : df[j] # df[k]
        RECURSIVE Build(_)
        Build(k) == IF k > Len(df) THEN <<>>
                    ELSE (IF Keep(k) THEN <<df[k]>> ELSE <<>>) \o Build(k + 1)
    IN  Build(1)

detect_changes(dfs) ==
    IF Len(dfs) < 2 THEN <<>>
    ELSE LET full_df == SortByIdCrawledAt(Concat(dfs))
         IN  DropDuplicates(AllChanges(full_df, GroupKeys(full_df)))

(***************************************************************************)
(* Lifecycle Resolver and State Materializer: prepare_for_database         *)
(***************************************************************************)
Min(S) == CHOOSE x \in S : \A y \in S : x <= y
Max(S) == CHOOSE x \in S : \A y \in S : y <= x

\* Mutant: the latest timestamp of the id instead of the earliest.
FirstSeen_Latest(full_df, prop_id) ==
    Max({ToDatetime(r.crawled_at) : r \in {x \in Range(full_df) : x.id = prop_id}})

\* full_df.groupby('id')['crawled_at'].min(): defined for the ids that are not
\* missing.
FirstSeen(full_df, prop_id) ==
    Min({ToDatetime(r.crawled_at) : r \in {x \in Range(full_df) : x.id = prop_id}})

\* The left merge on id, then crawled_at := first_crawled_at: a row whose id
\* is missing finds no partner and gets NaT.
WithFirstSeen(full_df, row) ==
    IF IsNa(row.id) THEN [row EXCEPT !.crawled_at = NULL]
    ELSE [row EXCEPT !.crawled_at = Num(FirstSeen(full_df, row.id))]

\* daily_ids: calendar date -> set of the ids of that date's rows.
Dates(full_df) == {DateOf(ToDatetime(r.crawled_at)) : r \in Range(full_df)}
DailyIds(full_df, date) ==
    {r.id : r \in {x \in Range(full_df) : DateOf(ToDatetime(x.crawled_at)) = date}}

\* prop_id in date_ids: a missing id (NaN) is equal to nothing, itself included.
InIds(prop_id, date_ids) == ~IsNa(prop_id) /\ prop_id \in date_ids

\* Mutant: an id is inactive as soon as it is absent from some date.
Active_EveryDay(full_df, prop_id) ==
    \A d \in Dates(full_df) : InIds(prop_id, DailyIds(full_df, d))

\* Mutant: the days_present >= 2 test is left out.
Active_LastDayOnly(full_df, prop_id) ==
    \/ Cardinality(Dates(full_df)) < 2
    \/ InIds(prop_id, DailyIds(full_df, Max(Dates(full_df))))

Active(full_df, prop_id) ==
    LET dates == Dates(full_df)
        last_day_ids == DailyIds(full_df, Max(dates))
        days_present == Cardinality({d \in dates : InIds(prop_id, DailyIds(full_df, d))})
    IN  ~(/\ Cardinality(dates) >= 2
          /\ days_present >= 2
          /\ ~InIds(prop_id, last_day_ids))

\* Mutant: the guard of detect_changes (fewer than two dataframes give an
\* empty result) copied into prepare_for_database.
prepare_for_database_NeedsTwo(dfs, kind) ==
    IF Len(dfs) < 2 THEN <<>>
    ELSE LET full_df == SortByCrawledAt(Concat(dfs), kind)
             latest_df == DropDuplicatesIdLast(full_df)
         IN  [k \in 1..Len(latest_df) |->
                 WithFirstSeen(full_df, latest_df[k])
                   @@ [active |-> Active(full_df, latest_df[k].id)]]

prepare_for_database(dfs, kind) ==
    IF dfs = <<>> THEN <<>>
    ELSE LET full_df == SortByCrawledAt(Concat(dfs), kind)
             latest_df == DropDuplicatesIdLast(full_df)
         IN  [k \in 1..Len(latest_df) |->
                 WithFirstSeen(full_df, latest_df[k])
                   @@ [active |-> Active(full_df, latest_df[k].id)]]

\* Mutant: latest_df is a view, so the write of first_crawled_at into
\* crawled_at reaches the rows of the caller's frames.
prepare_for_database_arg_InPlace(dfs) ==
    [n \in 1..Len(dfs) |->
        [k \in 1..Len(dfs[n]) |-> WithFirstSeen(Concat(dfs), dfs[n][k])]]

\* The caller's list of dataframes after each call: pd.concat copies the rows
\* into a new frame, and every later assignment is to that frame (full_df) or
\* to a copy of a part of it (latest_df), never to a frame of the list.
detect_changes_arg(dfs) == dfs
prepare_for_database_arg(dfs) == dfs

(***************************************************************************)
(* Inputs                                                                  *)
(***************************************************************************)
MaxFiles == 3      \* snapshot files per run
MaxProps == 1      \* raw records per snapshot file
MaxTime == 4       \* crawled_at is one of the ticks 1..MaxTime
MaxId == 2         \* listing ids are 1..MaxId
MaxPrice == 2      \* prices are 1..MaxPrice

SeqsUpTo(S, n) == UNION {[1..k -> S] : k \in 0..n}

Times == 1..MaxTime
PriceValues == {NULL} \cup {Num(p) : p \in 1..MaxPrice}

\* A raw record with the given id and price; an id of "absent" leaves the
\* key out.
RawProp(id, price) ==
    (IF id = Text("absent") THEN <<>> ELSE [id |-> id])
        @@ [prices |-> Obj([rawPrice |-> price])]

\* The first id takes every price; the other ids and the missing id take one.
Props ==
    {RawProp(Num(1), p) : p \in PriceValues}
        \cup {RawProp(Num(a), Num(1)) : a \in 2..MaxId}
        \cup {RawProp(NULL, Num(1))}

RawFile(ts, props) ==
    [readable |-> TRUE,
     data |-> [crawled_at |-> Num(ts),
               properties |-> [k \in 1..Len(props) |-> Obj(props[k])]]]

Files == {RawFile(ts, props) : ts \in Times, props \in SeqsUpTo(Props, MaxProps)}

(***************************************************************************)
(* The pipeline                                                            *)
(***************************************************************************)
\* The crawler before its main starts.
CrawlerIdle ==
    /\ bairro_global = 0
    /\ total_collected = 0
    /\ page = 1
    /\ total_pages = 1
    /\ all_items = <<>>
    /\ responses = <<>>
    /\ save_batch_args = <<>>
    /\ raw_files = <<>>
    /\ properties = <<>>
    /\ cpc = "idle"

InitWith(file_lists) ==
    /\ json_files \in file_lists
    /\ sort_kind \in SortKinds
    /\ i = 0
    /\ all_dataframes = <<>>
    /\ trusted = <<>>
    /\ changes_df = <<>>
    /\ properties_df = <<>>
    /\ run = 0
    /\ prev_changes_df = <<>>
    /\ prev_properties_df = <<>>
    /\ pc = "process"
    /\ CrawlerIdle

Init == InitWith(SeqsUpTo(Files, MaxFiles))

\* process_all_raw_data finds no file.
NoJsonFiles ==
    /\ pc = "process"
    /\ json_files = <<>>
    /\ pc' = "detect"
    /\ UNCHANGED <<json_files, i, all_dataframes, trusted, sort_kind, changes_df,
                   properties_df, run, prev_changes_df, prev_properties_df>>
    /\ UNCHANGED crawler_vars

\* Mutant: the first file that gives no dataframe ends the loop.
ProcessFile_AbortOnFailure ==
    /\ pc = "process"
    /\ i < Len(json_files)
    /\ LET res == process_json_to_parquet(json_files[i + 1])
       IN  /\ all_dataframes' = IF res.ok THEN Append(all_dataframes, res.df)
                                ELSE all_dataframes
           /\ trusted' = IF res.ok THEN Append(trusted, res.df) ELSE trusted
           /\ i' = IF res.ok THEN i + 1 ELSE Len(json_files)
           /\ pc' = IF res.ok /\ i + 1 < Len(json_files) THEN "process" ELSE "detect"
    /\ UNCHANGED <<json_files, sort_kind, changes_df, properties_df, run,
                   prev_changes_df, prev_properties_df>>
    /\ UNCHANGED crawler_vars

\* One turn of the loop of process_all_raw_data: process_json_to_parquet on
\* the next file; its dataframe, if any, is written and collected.
ProcessFile ==
    /\ pc = "process"
    /\ i < Len(json_files)
    /\ LET res == process_json_to_parquet(json_files[i + 1])
       IN  /\ all_dataframes' = IF res.ok THEN Append(all_dataframes, res.df)
                                ELSE all_dataframes
           /\ trusted' = IF res.ok THEN Append(trusted, res.df) ELSE trusted
    /\ i' = i + 1
    /\ pc' = IF i + 1 = Len(json_files) THEN "detect" ELSE "process"
    /\ UNCHANGED <<json_files, sort_kind, changes_df, properties_df, run,
                   prev_changes_df, prev_properties_df>>
    /\ UNCHANGED crawler_vars

DetectChanges ==
    /\ pc = "detect"
    /\ changes_df' = detect_changes(all_dataframes)
    /\ all_dataframes' = detect_changes_arg(all_dataframes)
    /\ pc' = "prepare"
    /\ UNCHANGED <<json_files, i, trusted, sort_kind, properties_df, run,
                   prev_changes_df, prev_properties_df>>
    /\ UNCHANGED crawler_vars

PrepareForDatabase ==
    /\ pc = "prepare"
    /\ properties_df' = prepare_for_database(all_dataframes, sort_kind)
    /\ all_dataframes' = prepare_for_database_arg(all_dataframes)
    /\ run' = run + 1
    /\ pc' = "done"
    /\ UNCHANGED <<json_files, i, trusted, sort_kind, changes_df,
                   prev_changes_df, prev_properties_df>>
    /\ UNCHANGED crawler_vars

Next == NoJsonFiles \/ ProcessFile \/ DetectChanges \/ PrepareForDatabase

Spec == Init /\ [][Next]_vars

(***************************************************************************)
(* Snapshots with several raw records, among them records that share an id *)
(* and records whose id is null or missing.                                *)
(***************************************************************************)
MaxSnapshotFiles == 2   \* snapshot files per run
MaxSnapshotProps == 2   \* raw records per snapshot file
MaxSnapshotTime == 2    \* crawled_at is one of the ticks 1..MaxSnapshotTime

SnapshotProps ==
    {RawProp(Num(1), p) : p \in PriceValues}
        \cup {RawProp(Num(a), Num(1)) : a \in 2..MaxId}
        \cup {RawProp(NULL, Num(p)) : p \in 1..MaxPrice}
        \cup {RawProp(Text("absent"), Num(1))}

SnapshotFiles ==
    {RawFile(ts, props) : ts \in 1..MaxSnapshotTime,
                          props \in SeqsUpTo(SnapshotProps, MaxSnapshotProps)}

InitSnapshot == InitWith(SeqsUpTo(SnapshotFiles, MaxSnapshotFiles))

SpecSnapshot == InitSnapshot /\ [][Next]_vars

(***************************************************************************)
(* The two functions called again on the same list of dataframes.          *)
(***************************************************************************)
MaxRuns == 2

Rerun ==
    /\ pc = "done"
    /\ run < MaxRuns
    /\ prev_changes_df' = changes_df
    /\ prev_properties_df' = properties_df
    /\ pc' = "detect"
    /\ UNCHANGED <<json_files, i, all_dataframes, trusted, sort_kind, changes_df,
                   properties_df, run>>
    /\ UNCHANGED crawler_vars

NextRerun == Next \/ Rerun

SpecRerun == Init /\ [][NextRerun]_vars

(***************************************************************************)
(* Snapshot files that cannot be read, and raw records in which a nested   *)
(* key is present but holds null or a text instead of an object.           *)
(***************************************************************************)
MaxFaultyFiles == 3   \* snapshot files per run
MaxFaultyProps == 2   \* raw records per snapshot file

\* A file on which open() or json.load() raises.
UnreadableFile == [readable |-> FALSE, data |-> <<>>]

\* {"id": .., "prices": {..}, "area": null}, {.., "location": "x"} and
\* {.., "publisher": {"phones": null}}.
MalformedProps ==
    {RawProp(Num(MaxId), Num(1)) @@ [area |-> NULL],
     RawProp(Num(MaxId), Num(1)) @@ [location |-> Text("x")],
     RawProp(Num(MaxId), Num(1)) @@ [publisher |-> Obj([phones |-> NULL])]}

\* The records of RawProp hold id and prices only: every other nested path
\* is missing from its first key on.
FaultyProps == {RawProp(Num(a), Num(1)) : a \in 1..MaxId} \cup MalformedProps

FaultyFiles ==
    {UnreadableFile}
        \cup {RawFile(1, props) : props \in SeqsUpTo(FaultyProps, MaxFaultyProps)}

InitFaulty == InitWith(SeqsUpTo(FaultyFiles, MaxFaultyFiles))

SpecFaulty == InitFaulty /\ [][Next]_vars

(***************************************************************************)
(* Snapshots of two ids whose records differ in two monitored fields       *)
(* (price, title) and in a field that is not monitored (category).         *)
(***************************************************************************)
MaxFieldFiles == 3   \* snapshot files per run
MaxFieldTime == 3    \* crawled_at is one of the ticks 1..MaxFieldTime

FieldProp(id, price, title, category) ==
    RawProp(Num(id), Num(price))
        @@ [title |-> Text(title), category |-> Text(category)]

\* (price, title, category) of the records of id 1: two that differ in the
\* category only, and one that differs from them in price and title.
FieldValues == {<<1, "a", "x">>, <<1, "a", "y">>, <<2, "b", "x">>}

\* A snapshot holds id 1, id 2 or both; the records of id 2 differ in price.
FieldSnapshots ==
    {r1 \o r2 :
        r1 \in {<<>>} \cup {<<FieldProp(1, v[1], v[2], v[3])>> : v \in FieldValues},
        r2 \in {<<>>} \cup {<<FieldProp(2, p, "a", "x")>> : p \in 1..MaxPrice}}
      \ {<<>>}

FieldFiles ==
    {RawFile(ts, props) : ts \in 1..MaxFieldTime, props \in FieldSnapshots}

\* The snapshots of a run are taken at different times, and are listed in
\* any order.
FieldFileLists ==
    {fl \in SeqsUpTo(FieldFiles, MaxFieldFiles) :
        \A a, b \in 1..Len(fl) :
            fl[a].data.crawled_at = fl[b].data.crawled_at => a = b}

InitFields == InitWith(FieldFileLists)

SpecFields == InitFields /\ [][Next]_vars

(***************************************************************************)
(* Redundant snapshots: up to four snapshots of one id, several of them    *)
(* with the same timestamp.                                                *)
(***************************************************************************)
MaxRedundantFiles == 4   \* snapshot files per run
MaxRedundantTime == 2    \* crawled_at is one of the ticks 1..MaxRedundantTime

RedundantFiles ==
    {RawFile(ts, <<RawProp(Num(1), Num(p))>>) :
        ts \in 1..MaxRedundantTime, p \in 1..MaxPrice}

InitRedundant == InitWith(SeqsUpTo(RedundantFiles, MaxRedundantFiles))

SpecRedundant == InitRedundant /\ [][Next]_vars

(***************************************************************************)
(* The crawler: main, scrape_bairro and save_batch of src/src/crawler.py.  *)
(* A response of the listing API is what requests.get gives: raises says   *)
(* that the request itself failed, status is the HTTP status, json whether *)
(* response.json() parses, items the 'items' of the parsed body.           *)
(***************************************************************************)
MaxBairros == 2      \* neighbourhoods in the configuration
MaxPages == 3        \* metadata.totalPages is one of 1..MaxPages
MaxPageItems == 2    \* items in one page of the listing

Item(n) == [id |-> Num(n)]
\* The entry of 'items' that carries the pagination block.
PaginationItem == [pagination |-> Obj([page |-> Num(1)])]

PageItems == SeqsUpTo({Item(1), PaginationItem}, MaxPageItems)

Responses ==
    {[raises |-> TRUE, status |-> 0, json |-> FALSE, items |-> <<>>],
     [raises |-> FALSE, status |-> 500, json |-> FALSE, items |-> <<>>],
     [raises |-> FALSE, status |-> 200, json |-> FALSE, items |-> <<>>]}
        \cup {[raises |-> FALSE, status |-> 200, json |-> TRUE, items |-> its] :
                 its \in PageItems}

\* [item for item in data.get('items', []) if not item.get('pagination')]
ItemsOf(resp) ==
    LET NoPagination(item) == ~Truthy(Get(item, "pagination", NULL))
    IN  SelectSeq(resp.items, NoPagination)

\* requests.get or response.json() raises.
Raises(resp) == resp.raises \/ (resp.status = 200 /\ ~resp.json)

\* item['meta_estado'] = estado, ... for every item of all_items.
WithMeta(items, bairro) ==
    [k \in 1..Len(items) |->
        [meta_estado |-> Text("estado"), meta_cidade |-> Text("cidade"),
         meta_bairro |-> Text(ToString(bairro))] @@ items[k]]

\* The pipeline while the crawler runs.
PipelineIdle ==
    /\ json_files = <<>>
    /\ i = 0
    /\ all_dataframes = <<>>
    /\ trusted = <<>>
    /\ sort_kind = "stable"
    /\ changes_df = <<>>
    /\ properties_df = <<>>
    /\ run = 0
    /\ prev_changes_df = <<>>
    /\ prev_properties_df = <<>>
    /\ pc = "idle"

InitCrawler == PipelineIdle /\ CrawlerIdle

\* return value of scrape_bairro, back in main:
\* properties = scrape_bairro(...); total_collected += len(properties)
Return(value) ==
    /\ properties' = value
    /\ total_collected' = total_collected + Len(value)
    /\ cpc' = "idle"

\* main calls scrape_bairro for the next neighbourhood: all_items = [].
StartBairro ==
    /\ cpc = "idle"
    /\ bairro_global < MaxBairros
    /\ bairro_global' = bairro_global + 1
    /\ all_items' = <<>>
    /\ page' = 1
    /\ total_pages' = 1
    /\ responses' = <<>>
    /\ cpc' = "first"
    /\ UNCHANGED <<total_collected, save_batch_args, raw_files, properties>>
    /\ UNCHANGED pipeline_vars

\* The request of the first page and what follows it up to the loop.
FirstPage ==
    /\ cpc = "first"
    /\ \E resp \in Responses, tp \in 1..MaxPages :
          /\ responses' = <<resp>>
          /\ IF Raises(resp) \/ resp.status # 200 \/ ItemsOf(resp) = <<>>
             THEN /\ Return(<<>>)
                  /\ UNCHANGED <<all_items, total_pages, page>>
             ELSE /\ all_items' = ItemsOf(resp)
                  /\ total_pages' = tp
                  /\ page' = 2
                  /\ cpc' = "paging"
                  /\ UNCHANGED <<properties, total_collected>>
    /\ UNCHANGED <<bairro_global, save_batch_args, raw_files>>
    /\ UNCHANGED pipeline_vars

\* Mutant: a later page that fails is handled like the first page.
NextPage_ErrorReturnsEmpty ==
    /\ cpc = "paging"
    /\ page <= total_pages
    /\ \E resp \in Responses :
          /\ responses' = Append(responses, resp)
          /\ IF Raises(resp) \/ resp.status # 200 \/ ItemsOf(resp) = <<>>
             THEN /\ Return(<<>>)
                  /\ UNCHANGED <<all_items, page>>
             ELSE /\ all_items' = all_items \o ItemsOf(resp)
                  /\ page' = page + 1
                  /\ cpc' = "paging"
                  /\ UNCHANGED <<properties, total_collected>>
    /\ UNCHANGED <<bairro_global, total_pages, save_batch_args, raw_files>>
    /\ UNCHANGED pipeline_vars

\* One turn of for page in range(2, total_pages + 1).
NextPage ==
    /\ cpc = "paging"
    /\ page <= total_pages
    /\ \E resp \in Responses :
          /\ responses' = Append(responses, resp)
          /\ IF Raises(resp)
             THEN /\ Return(<<>>)
                  /\ UNCHANGED <<all_items, page>>
             ELSE IF resp.status # 200 \/ ItemsOf(resp) = <<>>
             THEN /\ cpc' = "save"
                  /\ UNCHANGED <<all_items, page, properties, total_collected>>
             ELSE /\ all_items' = all_items \o ItemsOf(resp)
                  /\ page' = page + 1
                  /\ cpc' = "paging"
                  /\ UNCHANGED <<properties, total_collected>>
    /\ UNCHANGED <<bairro_global, total_pages, save_batch_args, raw_files>>
    /\ UNCHANGED pipeline_vars

\* After the loop: the meta keys are written into the items, save_batch is
\* called with all_items and all_items is returned; written says whether
\* save_batch wrote its file or raised (mkdir, open or json.dump failing).
SaveAndReturn ==
    /\ cpc = "save" \/ (cpc = "paging" /\ page > total_pages)
    /\ \E written \in BOOLEAN :
          LET items == WithMeta(all_items, bairro_global)
          IN  /\ all_items' = items
              /\ save_batch_args' = Append(save_batch_args, items)
              /\ raw_files' = IF written THEN Append(raw_files, items) ELSE raw_files
              /\ Return(IF written THEN items ELSE <<>>)
    /\ UNCHANGED <<bairro_global, page, total_pages, responses>>
    /\ UNCHANGED pipeline_vars

NextCrawler == StartBairro \/ FirstPage \/ NextPage \/ SaveAndReturn

SpecCrawler == InitCrawler /\ [][NextCrawler]_vars

(***************************************************************************)
(* Properties.  They are stated over the inputs and outputs of the calls:  *)
(* the snapshot dataframes handed to detect_changes and                    *)
(* prepare_for_database (all_dataframes) and what the two return.          *)
(***************************************************************************)
Detected == pc \in {"prepare", "done"}
Prepared == pc = "done"

\* Every record handed to the two functions, and the records of one id.
Records == Range(Concat(all_dataframes))
RecordsOf(id) == {r \in Records : r.id = Num(id)}
SeenIds == {r.id.v : r \in {x \in Records : ~IsNa(x.id)}}
Events == Range(changes_df)
\* The state rows of the ids (a row whose id is missing belongs to no id).
StateRowsOf(id) == {k \in 1..Len(properties_df) : properties_df[k].id = Num(id)}
\* The calendar dates on which an id was observed, and the latest date of all.
DatesOf(id) == {DateOf(r.crawled_at.v) : r \in RecordsOf(id)}
LatestDate == Max({DateOf(r.crawled_at.v) : r \in Records})

\* C1: every change event has a non-empty old_value and new_value that
\* differ, and both are values that records of that id hold in that field;
\* so a field that goes from null to a value, or from a value to null, gives
\* no event.
C1_NoNoise ==
    Detected =>
        \A e \in Events :
            /\ e.old_value # ""
            /\ e.new_value # ""
            /\ e.old_value # e.new_value
            /\ \E r1, r2 \in RecordsOf(e.id) :
                  /\ ~IsNa(r1[e.field]) /\ StrOf(r1[e.field]) = e.old_value
                  /\ ~IsNa(r2[e.field]) /\ StrOf(r2[e.field]) = e.new_value
                  /\ r2.crawled_at.v = e.change_date

\* An id goes from a null price to a price and later to another price: the
\* second transition is reported, the first is not.
C1_Witness ==
    /\ Detected
    /\ Len(changes_df) = 1
    /\ \E r1, r2, r3 \in RecordsOf(1) :
          /\ r1.crawled_at.v < r2.crawled_at.v /\ r2.crawled_at.v < r3.crawled_at.v
          /\ IsNa(r1.price) /\ ~IsNa(r2.price) /\ ~IsNa(r3.price)
          /\ r2.price # r3.price

\* C2: the crawled_at of an id's state row is the least crawled_at of the
\* records of that id, whatever the order of the snapshots and whichever
\* snapshots in between omit the id.
C2_FirstSeen ==
    Prepared =>
        \A id \in SeenIds : \A k \in StateRowsOf(id) :
            /\ properties_df[k].crawled_at.t = "num"
            /\ \E r \in RecordsOf(id) : r.crawled_at = properties_df[k].crawled_at
            /\ \A r \in RecordsOf(id) : properties_df[k].crawled_at.v <= r.crawled_at.v

\* The id is in the second and the third snapshot supplied, the third being
\* the earlier one, and a snapshot taken in between omits it.
C2_Witness ==
    /\ Prepared
    /\ Len(all_dataframes) = 3
    /\ \E a \in Range(all_dataframes[3]), b \in Range(all_dataframes[1]),
          c \in Range(all_dataframes[2]) :
          /\ a.id = Num(1) /\ c.id = Num(1) /\ b.id = Num(2)
          /\ a.crawled_at.v < b.crawled_at.v /\ b.crawled_at.v < c.crawled_at.v
          /\ \E k \in StateRowsOf(1) : properties_df[k].crawled_at = a.crawled_at

\* C3: an id observed on two or more calendar dates is active iff it was
\* observed on the latest date with any snapshot.
C3_LatestDay ==
    Prepared =>
        \A id \in SeenIds :
            Cardinality(DatesOf(id)) >= 2 =>
                \A k \in StateRowsOf(id) :
                    properties_df[k].active <=> (LatestDate \in DatesOf(id))

\* Present on the first and on the last of three dates, absent on the middle
\* one: active.
C3_Witness ==
    /\ Prepared
    /\ \E d1, d2, d3 \in {DateOf(ts) : ts \in Times} :
          /\ d1 < d2 /\ d2 < d3
          /\ DatesOf(1) = {d1, d3}
          /\ DatesOf(2) = {d2}
          /\ \E k \in StateRowsOf(1) : properties_df[k].active

\* Present on two dates and absent on the latest: inactive.
C3_WitnessInactive ==
    /\ Prepared
    /\ Cardinality(DatesOf(1)) = 2
    /\ LatestDate \notin DatesOf(1)
    /\ \E k \in StateRowsOf(1) : ~properties_df[k].active

\* C4: an id whose records are all of one calendar date is active, also when
\* that date is not the latest one.
C4_SingleDay ==
    Prepared =>
        \A id \in SeenIds :
            Cardinality(DatesOf(id)) = 1 =>
                \A k \in StateRowsOf(id) : properties_df[k].active

\* Two snapshots of one date hold the id, and a later date has a snapshot
\* without it.
C4_Witness ==
    /\ Prepared
    /\ Cardinality(RecordsOf(1)) = 2
    /\ Cardinality(DatesOf(1)) = 1
    /\ LatestDate \notin DatesOf(1)
    /\ \E k \in StateRowsOf(1) : properties_df[k].active

\* The events of one id and field.
EventsOf(id, field) == {e \in Events : e.id = id /\ e.field = field}

\* C5: an id with price p1 in one snapshot and p2 # p1 in a later one, and in
\* no other snapshot, gives exactly one price event, (p1, p2, the later
\* timestamp), however many snapshots in between omit the id.
C5_SkipAbsent ==
    Detected =>
        \A id \in SeenIds : \A r1, r3 \in RecordsOf(id) :
            (/\ RecordsOf(id) = {r1, r3}
             /\ Cardinality({k \in 1..Len(all_dataframes) :
                                \E r \in Range(all_dataframes[k]) : r.id = Num(id)}) = 2
             /\ r1.crawled_at.v < r3.crawled_at.v
             /\ ~IsNa(r1.price) /\ ~IsNa(r3.price) /\ r1.price # r3.price)
            => EventsOf(id, "price") =
                  {[id |-> id, field |-> "price",
                    old_value |-> StrOf(r1.price), new_value |-> StrOf(r3.price),
                    change_date |-> r3.crawled_at.v]}

\* S1, S2, S3 in time order, the id in S1 and S3 only, S2 holding another id.
C5_Witness ==
    /\ Detected
    /\ Len(all_dataframes) = 3
    /\ \E r1, r3 \in RecordsOf(1), r2 \in RecordsOf(2) :
          /\ RecordsOf(1) = {r1, r3}
          /\ r1.crawled_at.v < r2.crawled_at.v /\ r2.crawled_at.v < r3.crawled_at.v
          /\ ~IsNa(r1.price) /\ ~IsNa(r3.price) /\ r1.price # r3.price
          /\ Len(changes_df) = 1

\* The raw records of a snapshot file and the id of each (null when the key
\* is missing).
RawRecords(file) == file.data.properties
RawId(file, k) == Get(RawRecords(file)[k].v, "id", NULL)
RawPrice(file, k) == RawRecords(file)[k].v.prices.v.rawPrice

\* df is the deduplicated canonical form of file: no two rows share an id,
\* and for each id of the file there is a row, which holds the values of the
\* last raw record with that id.
Deduplicated(file, df) ==
    /\ \A a, b \in 1..Len(df) : df[a].id = df[b].id => a = b
    /\ \A k \in 1..Len(RawRecords(file)) :
          (\A j \in (k + 1)..Len(RawRecords(file)) : RawId(file, j) # RawId(file, k))
          => \E a \in 1..Len(df) :
                /\ df[a].id = RawId(file, k)
                /\ df[a].price = RawPrice(file, k)
                /\ df[a] = extract_property_features(RawRecords(file)[k].v)
                              @@ [crawled_at |-> file.data.crawled_at]

\* C6: within one snapshot the raw records that share an id become exactly
\* one canonical record, that of the last of them.  (While every file so far
\* gave a dataframe, the k-th dataframe is that of the k-th file.)
C6_DedupKeepsLast ==
    Len(all_dataframes) = i =>
        \A k \in 1..i : Deduplicated(json_files[k], all_dataframes[k])

\* A snapshot with two raw records of id 1 and different prices.
C6_Witness ==
    /\ i >= 1
    /\ Len(all_dataframes) = i
    /\ Len(RawRecords(json_files[1])) = 2
    /\ RawId(json_files[1], 1) = Num(1)
    /\ RawId(json_files[1], 2) = Num(1)
    /\ RawPrice(json_files[1], 1) = Num(1)
    /\ RawPrice(json_files[1], 2) = Num(2)
    /\ Len(all_dataframes[1]) = 1
    /\ all_dataframes[1][1].price = Num(2)

\* The dataframes without the rows whose id is missing.
WithoutNullIds(dfs) ==
    LET HasId(r) == ~IsNa(r.id)
    IN  [k \in 1..Len(dfs) |-> SelectSeq(dfs[k], HasId)]

\* What does hold of the records with a null or missing id: they give no
\* change event, the events are those of the other records.
C7_NullIdNoEvent ==
    Detected =>
        /\ \A e \in Events : e.id \in SeenIds
        /\ changes_df = detect_changes(WithoutNullIds(all_dataframes))

\* C7: a raw record whose id is null or missing is in no canonical snapshot,
\* gives no change event and has no row in the state table.
C7_NullIdExcluded ==
    /\ \A k \in 1..Len(all_dataframes) : \A r \in Range(all_dataframes[k]) : ~IsNa(r.id)
    /\ C7_NullIdNoEvent
    /\ Prepared => \A r \in Range(properties_df) : ~IsNa(r.id)

\* The orders in which a list can be supplied.
Orderings(s) ==
    {[k \in 1..Len(s) |-> s[f[k]]] :
        f \in {g \in [1..Len(s) -> 1..Len(s)] : \A a, b \in 1..Len(s) : g[a] = g[b] => a = b}}

\* The records of each id have pairwise distinct timestamps.
DistinctTimesPerId ==
    LET all == Concat(all_dataframes)
    IN  \A a, b \in 1..Len(all) :
            (a # b /\ ~IsNa(all[a].id) /\ all[a].id = all[b].id)
            => all[a].crawled_at # all[b].crawled_at

\* The rows of a state table that belong to an id.
IdRows(df) == {r \in Range(df) : ~IsNa(r.id)}

\* C8: when the records of each id have pairwise distinct timestamps, every
\* order of the snapshot dataframes gives the same change events and the
\* same state row for every id.
C8_OrderIndependent ==
    (Prepared /\ DistinctTimesPerId) =>
        \A dfs \in Orderings(all_dataframes) :
            /\ detect_changes(dfs) = changes_df
            /\ IdRows(prepare_for_database(dfs, sort_kind)) = IdRows(properties_df)

\* Three snapshots supplied latest first, with a price change and an id that
\* is gone on the latest date.
C8_Witness ==
    /\ Prepared
    /\ DistinctTimesPerId
    /\ Len(all_dataframes) = 3
    /\ all_dataframes[1][1].crawled_at.v > all_dataframes[2][1].crawled_at.v
    /\ all_dataframes[2][1].crawled_at.v > all_dataframes[3][1].crawled_at.v
    /\ Len(changes_df) = 1
    /\ Cardinality(RecordsOf(1)) = 2
    /\ \E r \in IdRows(properties_df) : ~r.active

C10_OneRowLatestValues ==
    Prepared =>
        /\ \A id \in SeenIds : Cardinality(StateRowsOf(id)) = 1
        /\ \A r \in IdRows(properties_df) : r.id.v \in SeenIds
        /\ \A id \in SeenIds : \A k \in StateRowsOf(id) :
              \E r \in RecordsOf(id) :
                 /\ \A o \in RecordsOf(id) : o.crawled_at.v <= r.crawled_at.v
                 /\ \A c \in DOMAIN r \ {"crawled_at"} : properties_df[k][c] = r[c]
                 /\ DOMAIN properties_df[k] = DOMAIN r \cup {"active"}

\* Three records of one id, supplied out of time order; the state row holds
\* the price of the latest, which is not the last supplied.
C10_Witness ==
    /\ Prepared
    /\ Len(all_dataframes) = 3
    /\ all_dataframes[1][1].id = Num(1)
    /\ all_dataframes[2][1].id = Num(1)
    /\ all_dataframes[3][1].id = Num(1)
    /\ all_dataframes[1][1].crawled_at.v < all_dataframes[3][1].crawled_at.v
    /\ all_dataframes[3][1].crawled_at.v < all_dataframes[2][1].crawled_at.v
    /\ all_dataframes[2][1].price = Num(2)
    /\ all_dataframes[3][1].price = Num(1)
    /\ \E k \in StateRowsOf(1) : properties_df[k].price = Num(2)

\* C11: with no usable snapshot or exactly one, detect_changes returns no
\* event; with exactly one, prepare_for_database returns a state table with
\* one row per id of the snapshot, no row of another id, every row active.
C11_EmptyInput ==
    /\ (Detected /\ Len(all_dataframes) <= 1) => changes_df = <<>>
    /\ (Prepared /\ all_dataframes = <<>>) => properties_df = <<>>
    /\ (Prepared /\ Len(all_dataframes) = 1) =>
          /\ \A id \in SeenIds : Cardinality(StateRowsOf(id)) = 1
          /\ \A r \in IdRows(properties_df) : r.id.v \in SeenIds
          /\ \A k \in 1..Len(properties_df) : properties_df[k].active

\* Two snapshot files, one of them without records: a single usable snapshot
\* with two ids, no event, two active state rows.
C11_Witness ==
    /\ Prepared
    /\ Len(json_files) = 2
    /\ Len(all_dataframes) = 1
    /\ SeenIds = {1, 2}
    /\ changes_df = <<>>
    /\ Len(properties_df) = 2
    /\ \A k \in 1..2 : properties_df[k].active

\* Snapshot files that hold no record: no usable snapshot at all.
C11_WitnessNone ==
    /\ Prepared
    /\ json_files # <<>>
    /\ all_dataframes = <<>>
    /\ changes_df = <<>>
    /\ properties_df = <<>>

\* A raw record that extract_property_features turns into a canonical record.
WellFormed(file, k) == extract_property_features(RawRecords(file)[k].v) # RAISE

\* A snapshot file that is read and whose records are all canonicalized.
Usable(file) ==
    /\ file.readable
    /\ RawRecords(file) # <<>>
    /\ \A k \in 1..Len(RawRecords(file)) : WellFormed(file, k)

\* The usable files among the first n, in listing order.
UsableFiles(n) == SelectSeq(SubSeq(json_files, 1, n), Usable)

\* C12: a snapshot file that cannot be read is skipped alone: the loop goes
\* on to the last file, and the dataframes collected are those of the usable
\* files processed so far, one each, in listing order.
C12_SkipUnreadable ==
    /\ pc # "process" => i = Len(json_files)
    /\ Len(all_dataframes) = Len(UsableFiles(i))
    /\ \A n \in 1..Len(all_dataframes) :
          Deduplicated(UsableFiles(i)[n], all_dataframes[n])

\* Three files, the second unreadable: the dataframes of the first and of the
\* third are returned.
C12_Witness ==
    /\ pc = "detect"
    /\ Len(json_files) = 3
    /\ ~json_files[2].readable
    /\ Usable(json_files[1])
    /\ Usable(json_files[3])
    /\ Len(all_dataframes) = 2
    /\ Deduplicated(json_files[3], all_dataframes[2])

\* What does hold of a snapshot with a record that cannot be extracted: the
\* exception leaves the loop over the records, so the file gives no dataframe.
C13_SnapshotSkipped ==
    \A n \in 1..Len(json_files) :
        (json_files[n].readable
            /\ \E k \in 1..Len(RawRecords(json_files[n])) : ~WellFormed(json_files[n], k))
        => ~process_json_to_parquet(json_files[n]).ok

\* C13: when the extraction of one raw record fails, the other records of
\* the snapshot are still canonicalized and returned: a processed file with a
\* record that can be extracted has a dataframe with the row of that record.
C13_RecordIsolated ==
    \A n \in 1..i :
        json_files[n].readable =>
            \A k \in 1..Len(RawRecords(json_files[n])) :
                WellFormed(json_files[n], k) =>
                    \E df \in Range(all_dataframes) : \E r \in Range(df) :
                        r.id = RawId(json_files[n], k)

\* The nested paths of four of the monitored fields in a raw record, one of
\* each depth.
MonitoredPaths ==
    [price |-> <<"prices", "rawPrice">>, total_area |-> <<"area", "total">>,
     street_name |-> <<"location", "street", "name">>,
     publisher_phone |-> <<"publisher", "phones", "cellphone", "number">>]

\* A nested path whose keys are missing from some level on, every key that is
\* present above that level holding an object.
RECURSIVE PathMissing(_, _)
PathMissing(m, path) ==
    IF path[1] \notin DOMAIN m THEN TRUE
    ELSE IF Len(path) = 1 THEN FALSE
    ELSE m[path[1]].t = "obj" /\ PathMissing(m[path[1]].v, Tail(path))

\* A nested path on which a key above the last holds null or a text.
RECURSIVE PathMalformed(_, _)
PathMalformed(m, path) ==
    /\ Len(path) > 1
    /\ path[1] \in DOMAIN m
    /\ \/ m[path[1]].t # "obj"
       \/ PathMalformed(m[path[1]].v, Tail(path))

\* The raw records of the readable snapshot files.
AllRawRecords ==
    UNION {{RawRecords(json_files[n])[k].v : k \in 1..Len(RawRecords(json_files[n]))} :
              n \in {x \in 1..Len(json_files) : json_files[x].readable}}

\* What does hold: a record in which no path is malformed is canonicalized,
\* and a monitored field whose path is missing is null in it.
C14_MissingPathNull ==
    \A prop \in AllRawRecords :
        (\A f \in DOMAIN MonitoredPaths : ~PathMalformed(prop, MonitoredPaths[f]))
        => /\ extract_property_features(prop) # RAISE
           /\ \A f \in DOMAIN MonitoredPaths :
                 PathMissing(prop, MonitoredPaths[f])
                 => extract_property_features(prop)[f] = NULL

\* C14: extract_property_features raises for no raw record: a monitored
\* field whose path is missing or malformed is null in the canonical record.
C14_NullSafe ==
    \A prop \in AllRawRecords :
        /\ extract_property_features(prop) # RAISE
        /\ \A f \in DOMAIN MonitoredPaths :
              (PathMissing(prop, MonitoredPaths[f]) \/ PathMalformed(prop, MonitoredPaths[f]))
              => extract_property_features(prop)[f] = NULL

\* C15: the events are in ascending order of id and, among the events of one
\* id, in non-decreasing order of change date; this is the order of the list
\* returned, after the duplicate events are removed.
C15_Ordered ==
    Detected =>
        \A a, b \in 1..Len(changes_df) :
            a < b =>
                /\ changes_df[a].id <= changes_df[b].id
                /\ changes_df[a].id = changes_df[b].id
                      => changes_df[a].change_date <= changes_df[b].change_date

\* Three snapshots supplied latest first; id 1 changes at two dates, id 2 at
\* one, and one pair of records differs in two monitored fields.
C15_Witness ==
    /\ Detected
    /\ Len(all_dataframes) = 3
    /\ all_dataframes[1][1].crawled_at.v > all_dataframes[2][1].crawled_at.v
    /\ all_dataframes[2][1].crawled_at.v > all_dataframes[3][1].crawled_at.v
    /\ Cardinality({e.change_date : e \in EventsOf(1, "price")}) = 2
    /\ EventsOf(1, "title") # {}
    /\ EventsOf(2, "price") # {}
    /\ changes_df[1].id = 1
    /\ changes_df[Len(changes_df)].id = 2

\* Two records of one id that are consecutive in crawled_at order.
Consecutive(id, r1, r2) ==
    /\ r1.crawled_at.v < r2.crawled_at.v
    /\ \A r \in RecordsOf(id) :
          ~(r1.crawled_at.v < r.crawled_at.v /\ r.crawled_at.v < r2.crawled_at.v)

\* C16: when the records of each id have pairwise distinct timestamps, every
\* two consecutive records of an id and every monitored field whose texts in
\* the two are non-empty and differ give the event (id, field, text in the
\* earlier, text in the later, crawled_at of the later).
C16_Complete ==
    (Detected /\ DistinctTimesPerId) =>
        \A id \in SeenIds : \A r1, r2 \in RecordsOf(id) :
            Consecutive(id, r1, r2) =>
                \A k \in 1..Len(monitor_fields) :
                    LET f == monitor_fields[k] IN
                    (StrOf(r1[f]) # "" /\ StrOf(r2[f]) # "" /\ StrOf(r1[f]) # StrOf(r2[f]))
                    => [id |-> id, field |-> f,
                        old_value |-> StrOf(r1[f]), new_value |-> StrOf(r2[f]),
                        change_date |-> r2.crawled_at.v] \in Events

\* Three records of id 1 supplied latest first: price and title change from
\* the first to the second, and change back from the second to the third.
C16_Witness ==
    /\ Detected
    /\ DistinctTimesPerId
    /\ Len(all_dataframes) = 3
    /\ Cardinality(RecordsOf(1)) = 3
    /\ all_dataframes[1][1].crawled_at.v > all_dataframes[2][1].crawled_at.v
    /\ all_dataframes[2][1].crawled_at.v > all_dataframes[3][1].crawled_at.v
    /\ Cardinality(EventsOf(1, "price")) = 2
    /\ Cardinality(EventsOf(1, "title")) = 2
    /\ \E e \in EventsOf(1, "title") : e.old_value = "a" /\ e.new_value = "b"
    /\ \E e \in EventsOf(1, "title") : e.old_value = "b" /\ e.new_value = "a"

\* The events of every adjacent pair, before the duplicates are removed.
RawEvents ==
    LET full_df == SortByIdCrawledAt(Concat(all_dataframes))
    IN  IF Len(all_dataframes) < 2 THEN <<>>
        ELSE AllChanges(full_df, GroupKeys(full_df))

\* C17: no two events of the list returned are equal in id, field,
\* old_value, new_value and change_date; and every event found in some
\* adjacent pair is in the list.
C17_NoDuplicateEvents ==
    Detected =>
        /\ \A a, b \in 1..Len(changes_df) : changes_df[a] = changes_df[b] => a = b
        /\ Events = Range(RawEvents)

\* Four records of one id with one timestamp and prices 1, 2, 1, 2: the
\* transition from 1 to 2 is found in two adjacent pairs and reported once.
C17_Witness ==
    /\ Detected
    /\ Len(all_dataframes) = 4
    /\ \A k \in 1..4 : all_dataframes[k][1].crawled_at = all_dataframes[1][1].crawled_at
    /\ \A k \in 1..4 : all_dataframes[k][1].price = Num(IF k \in {1, 3} THEN 1 ELSE 2)
    /\ Len(RawEvents) = 3
    /\ Len(changes_df) = 2

\* The columns of a canonical record that are not monitored; crawled_at is
\* not among them here, as it orders the records and dates the events.
NotMonitored ==
    {"updated_at", "reference", "category", "city", "state", "latitude",
     "longitude", "address_comp", "privative_items", "estado", "cidade", "bairro"}

\* The dataframes with every column that is not monitored set to null.
MonitoredOnly(dfs) ==
    [n \in 1..Len(dfs) |->
        [k \in 1..Len(dfs[n]) |->
            [c \in DOMAIN dfs[n][k] |->
                IF c \in NotMonitored THEN NULL ELSE dfs[n][k][c]]]]

\* C18: the field of every event is a monitored field; an id whose records
\* agree in every monitored field has no event, whatever else they differ
\* in; and the events are those of the same records with the columns that
\* are not monitored blanked.
C18_OnlyMonitored ==
    Detected =>
        /\ \A e \in Events : e.field \in Range(monitor_fields)
        /\ \A id \in SeenIds :
              (\A r1, r2 \in RecordsOf(id) : \A f \in Range(monitor_fields) : r1[f] = r2[f])
              => \A e \in Events : e.id # id
        /\ changes_df = detect_changes(MonitoredOnly(all_dataframes))

\* The two records of id 1 differ in category and crawled_at only and give no
\* event, while the price change of id 2 is reported.
C18_Witness ==
    /\ Detected
    /\ Len(all_dataframes) = 2
    /\ \E r1, r2 \in RecordsOf(1) :
          /\ r1.category # r2.category
          /\ r1.crawled_at # r2.crawled_at
          /\ \A f \in Range(monitor_fields) : r1[f] = r2[f]
    /\ \A e \in Events : e.id = 2
    /\ EventsOf(2, "price") # {}

\* C19: when three consecutive records of an id hold v1, null and v2 # v1 in
\* a monitored field, no event of that id and field is dated by the second
\* or by the third record: the change from v1 to v2 is not reported.
C19_NoCarryForward ==
    (Detected /\ DistinctTimesPerId) =>
        \A id \in SeenIds : \A r1, r2, r3 \in RecordsOf(id) :
            (Consecutive(id, r1, r2) /\ Consecutive(id, r2, r3)) =>
                \A f \in Range(monitor_fields) :
                    (~IsNa(r1[f]) /\ IsNa(r2[f]) /\ ~IsNa(r3[f]) /\ r1[f] # r3[f])
                    => \A e \in EventsOf(id, f) :
                          /\ e.change_date \notin {r2.crawled_at.v, r3.crawled_at.v}
                          /\ ~(e.old_value = StrOf(r1[f]) /\ e.new_value = StrOf(r3[f]))

\* Price 1, then null, then 2 in three snapshots of id 1: no event at all.
C19_Witness ==
    /\ Detected
    /\ Len(all_dataframes) = 3
    /\ \A k \in 1..3 : all_dataframes[k][1].id = Num(1)
    /\ all_dataframes[1][1].crawled_at.v < all_dataframes[2][1].crawled_at.v
    /\ all_dataframes[2][1].crawled_at.v < all_dataframes[3][1].crawled_at.v
    /\ all_dataframes[1][1].price = Num(1)
    /\ all_dataframes[2][1].price = NULL
    /\ all_dataframes[3][1].price = Num(2)
    /\ changes_df = <<>>

\* scrape_bairro has returned to main.
Returned == cpc = "idle" /\ bairro_global >= 1

\* A response with status 200 whose body parses and holds an item.
OkPage(resp) == ~Raises(resp) /\ resp.status = 200 /\ ItemsOf(resp) # <<>>

\* The items of the pages received before the first page that is not ok.
RECURSIVE ItemsOfPages(_)
ItemsOfPages(rs) ==
    IF rs = <<>> \/ ~OkPage(rs[1]) THEN <<>>
    ELSE ItemsOf(rs[1]) \o ItemsOfPages(Tail(rs))

\* The calls of save_batch made for the current neighbourhood: its items
\* carry the neighbourhood in meta_bairro.
SaveCalls ==
    {k \in 1..Len(save_batch_args) :
        save_batch_args[k][1].meta_bairro = Text(ToString(bairro_global))}
FilesWritten ==
    {k \in 1..Len(raw_files) :
        raw_files[k][1].meta_bairro = Text(ToString(bairro_global))}

\* C20: scrape_bairro returns a non-empty list only if that list was handed
\* to save_batch and written; a first page that is not ok, and an exception
\* at any page or in save_batch, give an empty list; a later page that is
\* not ok ends the requests, and the items of the pages before it are
\* handed to save_batch and, unless save_batch raises, returned.
C20_ReturnsWhatWasSaved ==
    Returned =>
        LET got == WithMeta(ItemsOfPages(responses), bairro_global)
            raised == \E k \in 1..Len(responses) : Raises(responses[k])
        IN  /\ properties # <<>> =>
                  /\ \E k \in SaveCalls : save_batch_args[k] = properties
                  /\ \E k \in FilesWritten : raw_files[k] = properties
            /\ (~OkPage(responses[1]) \/ raised) =>
                  /\ properties = <<>>
                  /\ SaveCalls = {}
                  /\ FilesWritten = {}
            /\ \A k \in 1..(Len(responses) - 1) : OkPage(responses[k])
            /\ (OkPage(responses[1]) /\ ~raised) =>
                  /\ Cardinality(SaveCalls) = 1
                  /\ \A k \in SaveCalls : save_batch_args[k] = got
                  /\ IF FilesWritten = {} THEN properties = <<>>
                     ELSE /\ properties = got
                          /\ Cardinality(FilesWritten) = 1
                          /\ \A k \in FilesWritten : raw_files[k] = got

\* Three pages announced, the third answers 500: the items of the first two
\* pages, without the pagination entry, are written and returned.
C20_Witness ==
    /\ Returned
    /\ total_pages = 3
    /\ Len(responses) = 3
    /\ OkPage(responses[1])
    /\ OkPage(responses[2])
    /\ PaginationItem \in Range(responses[2].items)
    /\ responses[3].status = 500
    /\ Len(properties) = Len(ItemsOf(responses[1])) + Len(ItemsOf(responses[2]))
    /\ Len(properties) >= 2
    /\ raw_files # <<>>
    /\ raw_files[Len(raw_files)] = properties

\* save_batch raises after two pages were collected: nothing is returned.
C20_WitnessSaveRaises ==
    /\ Returned
    /\ Len(responses) = 2
    /\ OkPage(responses[1])
    /\ OkPage(responses[2])
    /\ SaveCalls # {}
    /\ FilesWritten = {}
    /\ properties = <<>>

====
